---- MODULE Spec2Model ----
(***************************************************************************)
(* A model of charter's axis module (src/src/charter/axis.py): tick        *)
(* generation, label scaling and the horizontal / vertical axis layout.    *)
(*                                                                         *)
(* Numbers.  The program computes on Python floats.  The model computes    *)
(* on exact rationals, records [n |-> numerator, d |-> denominator > 0]    *)
(* in lowest terms, so floor, ceil, log10 and the comparisons are those of *)
(* the real numbers the floats stand for.                                  *)
(*                                                                         *)
(* Errors.  A function that can raise returns [err |-> e, val |-> v]; err  *)
(* is "none" on a normal return and names the raised ValueError or         *)
(* IndexError otherwise.                                                   *)
(***************************************************************************)
EXTENDS Integers, Sequences, FiniteSets, TLC

VARIABLES pc, op, arg, ret

vars == <<pc, op, arg, ret>>

(***************************************************************************)
(* Bounds of the model.                                                    *)
(***************************************************************************)
DataBelow == 2
DataHi == 7
MaxTicksHi == 6
MaxWidth == 12
MaxPadding == 2
MaxMargin == 2
MaxSeqLen == 4
MaxSupplied == 2
MaxLength == 7
MaxLabelWidth == 3

(***************************************************************************)
(* Exact rational arithmetic.                                              *)
(***************************************************************************)
Abs(x) == IF x < 0 THEN -x ELSE x

Max(a, b) == IF a < b THEN b ELSE a

Min(a, b) == IF a < b THEN a ELSE b

RECURSIVE GCD(_, _)
GCD(a, b) == IF b = 0 THEN a ELSE GCD(b, a % b)

Rat(n, d) ==
    LET g == GCD(Abs(n), Abs(d))
        s == IF d < 0 THEN -1 ELSE 1
    IN [n |-> (s * n) \div g, d |-> (s * d) \div g]

RInt(i) == [n |-> i, d |-> 1]

RAdd(a, b) == Rat(a.n * b.d + b.n * a.d, a.d * b.d)

RSub(a, b) == Rat(a.n * b.d - b.n * a.d, a.d * b.d)

RMul(a, b) == Rat(a.n * b.n, a.d * b.d)

RDiv(a, b) == Rat(a.n * b.d, a.d * b.n)

RFloor(a) == a.n \div a.d

\* a < b and a <= b: by integer part first, then by fractional part
RLt(a, b) ==
    IF RFloor(a) # RFloor(b) THEN RFloor(a) < RFloor(b)
    ELSE (a.n % a.d) * b.d < (b.n % b.d) * a.d

RLe(a, b) == a = b \/ RLt(a, b)

RCeil(a) == -((-a.n) \div a.d)

RAbs(a) == [n |-> Abs(a.n), d |-> a.d]

RECURSIVE IPow10(_)
IPow10(k) == IF k = 0 THEN 1 ELSE 10 * IPow10(k - 1)

Pow10(k) == IF k >= 0 THEN [n |-> IPow10(k), d |-> 1] ELSE [n |-> 1, d |-> IPow10(-k)]

RECURSIVE FloorLog10From(_, _)
FloorLog10From(a, k) ==
    IF RLe(Pow10(k), a)
    THEN IF RLt(a, Pow10(k + 1)) THEN k ELSE FloorLog10From(a, k + 1)
    ELSE FloorLog10From(a, k - 1)

\* math.floor(math.log10(a)) for a > 0
FloorLog10(a) == FloorLog10From(a, 0)

Ok(v) == [err |-> "none", val |-> v]

Raise(e) == [err |-> e, val |-> <<>>]

(***************************************************************************)
(* bisect.bisect_left / bisect_right on an ascending tuple of rationals.   *)
(***************************************************************************)
bisect_left(limits, x) == Cardinality({i \in DOMAIN limits : RLt(limits[i], x)})

bisect_right(limits, x) == Cardinality({i \in DOMAIN limits : RLe(limits[i], x)})

(***************************************************************************)
(* _round_number.  A function of the program is modelled by an operator of *)
(* its name; where it names an intermediate value and uses it more than    *)
(* once, the rest of the function is an operator that takes the value as a *)
(* parameter.                                                              *)
(***************************************************************************)
\* LimitIndex with the two bisections exchanged
LimitIndexSwapped(limits, leading_term, allow_equal) ==
    IF allow_equal
    THEN bisect_right(limits, leading_term)
    ELSE bisect_left(limits, leading_term)

LimitIndex(limits, leading_term, allow_equal) ==
    IF allow_equal
    THEN bisect_left(limits, leading_term)
    ELSE bisect_right(limits, leading_term)

RoundedLead(limit_index, limits, rounding_terms) ==
    IF (Len(limits) - 1) < limit_index THEN RInt(10) ELSE rounding_terms[limit_index + 1]

RoundWithPower(number, limits, rounding_terms, allow_equal, power) ==
    RMul(RoundedLead(LimitIndex(limits, RDiv(number, Pow10(power)), allow_equal),
                     limits, rounding_terms),
         Pow10(power))

\* for number > 0 (the caller guards the log10 domain)
_round_number(number, limits, rounding_terms, allow_equal) ==
    RoundWithPower(number, limits, rounding_terms, allow_equal, FloorLog10(number))

(***************************************************************************)
(* _get_tick_values.                                                       *)
(***************************************************************************)
RangeLimits == <<Rat(3, 2), RInt(3), RInt(7)>>

SpacingLimits == <<RInt(1), RInt(2), RInt(5)>>

NiceTerms == <<RInt(1), RInt(2), RInt(5)>>

RoundedRange(data_range) == _round_number(data_range, RangeLimits, NiceTerms, FALSE)

\* TickSpacing without the second rounding
TickSpacingRaw(data_range, max_ticks) ==
    RDiv(RoundedRange(data_range), RInt(max_ticks - 1))

TickSpacing(data_range, max_ticks) ==
    _round_number(RDiv(RoundedRange(data_range), RInt(max_ticks - 1)),
                  SpacingLimits, NiceTerms, TRUE)

FirstTick(min_data, tick_spacing) ==
    RMul(RInt(RFloor(RDiv(min_data, tick_spacing))), tick_spacing)

\* LastTick rounding down instead of up
LastTickFloor(max_data, tick_spacing) ==
    RMul(RInt(RFloor(RDiv(max_data, tick_spacing))), tick_spacing)

LastTick(max_data, tick_spacing) ==
    RMul(RInt(RCeil(RDiv(max_data, tick_spacing))), tick_spacing)

NumberOfTicks(first_tick, last_tick, tick_spacing) ==
    RCeil(RDiv(RSub(last_tick, first_tick), tick_spacing)) + 1

NiceWithBounds(first_tick, last_tick, tick_spacing) ==
    [tick_spacing |-> tick_spacing, first_tick |-> first_tick, last_tick |-> last_tick,
     number_of_ticks |-> NumberOfTicks(first_tick, last_tick, tick_spacing)]

NiceWithSpacing(min_data, max_data, tick_spacing) ==
    NiceWithBounds(FirstTick(min_data, tick_spacing), LastTick(max_data, tick_spacing),
                   tick_spacing)

\* the nice-number candidate, for min_data < max_data and max_ticks >= 2
NiceTicks(min_data, max_data, max_ticks) ==
    NiceWithSpacing(min_data, max_data, TickSpacing(RSub(max_data, min_data), max_ticks))

TickList(first_tick, tick_spacing, number_of_ticks) ==
    [i \in 1..number_of_ticks |-> RAdd(first_tick, RMul(RInt(i - 1), tick_spacing))]

\* NeedsFallback letting one tick too many through
NeedsFallbackOffByOne(max_ticks, number_of_ticks) == max_ticks + 1 < number_of_ticks

\* the nice ticks do not fit the budget
NeedsFallback(max_ticks, number_of_ticks) == max_ticks < number_of_ticks

\* FallbackSpacing dividing by the number of ticks instead of the number of gaps
FallbackSpacingPerTick(data_range, max_ticks) == RDiv(data_range, RInt(max_ticks))

\* the even split of the fallback branch
FallbackSpacing(data_range, max_ticks) == RDiv(data_range, RInt(max_ticks - 1))

NiceOrFallback(min_data, max_data, max_ticks, nice) ==
    IF NeedsFallback(max_ticks, nice.number_of_ticks)
    THEN TickList(min_data, FallbackSpacing(RSub(max_data, min_data), max_ticks), max_ticks)
    ELSE TickList(nice.first_tick, nice.tick_spacing, nice.number_of_ticks)

\* _get_tick_values testing the budget before the data bounds
_get_tick_values_CountFirst(min_data, max_data, max_ticks) ==
    IF max_ticks <= 0 THEN Raise("max_ticks must be greater than 0")
    ELSE IF max_ticks = 1 THEN Ok(<<RDiv(RAdd(min_data, max_data), RInt(2))>>)
    ELSE IF max_data = min_data THEN Ok(<<min_data>>)
    ELSE IF RLt(max_data, min_data) THEN Raise("math domain error")
    ELSE Ok(NiceOrFallback(min_data, max_data, max_ticks,
                           NiceTicks(min_data, max_data, max_ticks)))

_get_tick_values(min_data, max_data, max_ticks) ==
    IF max_data = min_data THEN Ok(<<min_data>>)
    ELSE IF max_ticks = 1 THEN Ok(<<RDiv(RAdd(min_data, max_data), RInt(2))>>)
    ELSE IF max_ticks <= 0 THEN Raise("max_ticks must be greater than 0")
    ELSE IF RLt(max_data, min_data) THEN Raise("math domain error")
    ELSE Ok(NiceOrFallback(min_data, max_data, max_ticks,
                           NiceTicks(min_data, max_data, max_ticks)))

(***************************************************************************)
(* Label scaling.                                                          *)
(***************************************************************************)
\* a float beyond the fractions of machine integers: x * 10^e
Scaled(x, e) == [n |-> x.n, d |-> x.d, e |-> e]

DecimalExponent(number) == IF "e" \in DOMAIN number THEN number.e ELSE 0

\* math.floor(math.log10(abs(number)))
FloorLog10Abs(number) == FloorLog10(RAbs(number)) + DecimalExponent(number)

\* _find_closest_prefix_power with a division that rounds toward zero
_find_closest_prefix_power_Truncating(number) ==
    IF number.n # 0
    THEN Max(Min((IF FloorLog10Abs(number) < 0
                  THEN -((-FloorLog10Abs(number)) \div 3)
                  ELSE FloorLog10Abs(number) \div 3) * 3, 24), -24)
    ELSE 0

_find_closest_prefix_power(number) ==
    IF number.n # 0
    THEN Max(Min((FloorLog10Abs(number) \div 3) * 3, 24), -24)
    ELSE 0

\* the adjacent pairs zip(tick_values[:-1], tick_values[1:]) by index
StepAt(tick_values, i) == RSub(tick_values[i + 1], tick_values[i])

\* MinPairIndex looking at the first pair only
FirstPairIndex(tick_values) == 1

\* min(..., key=step): the first pair whose step is minimal
MinPairIndex(tick_values) ==
    CHOOSE i \in 1..(Len(tick_values) - 1) :
        /\ \A j \in 1..(Len(tick_values) - 1) :
              RLe(StepAt(tick_values, i), StepAt(tick_values, j))
        /\ \A j \in 1..(i - 1) :
              RLt(StepAt(tick_values, i), StepAt(tick_values, j))

OneThousandth == Rat(1, 1000)

\* "Round off in case of floating point errors"
SnapStep(min_tick_step, next_place_up) ==
    IF RLt(RDiv(RSub(next_place_up, min_tick_step), min_tick_step), OneThousandth)
    THEN next_place_up
    ELSE min_tick_step

CheckedStep(min_tick_step) ==
    IF min_tick_step.n < 0 THEN Raise("Ticks must be in ascending order.")
    ELSE IF min_tick_step.n # 0
    THEN Ok(SnapStep(min_tick_step, Pow10(FloorLog10(min_tick_step) + 1)))
    ELSE Ok(min_tick_step)

_get_min_step_size(tick_values) ==
    IF Len(tick_values) < 2 THEN Raise("min() arg is an empty sequence")
    ELSE CheckedStep(StepAt(tick_values, MinPairIndex(tick_values)))

Last(seq) == seq[Len(seq)]

NoSubtractor(axis_divisor_power) ==
    [axis_subtractor |-> RInt(0), tick_divisor_power |-> axis_divisor_power]

\* TickPlace always taking the place of the step
TickPlaceOfStep(axis_range_place, step_place) == step_place

TickPlace(axis_range_place, step_place) ==
    IF 2 < (axis_range_place - step_place) THEN step_place ELSE axis_range_place

\* (last // unit) * unit
SubtractorAt(last_tick, unit) == RMul(RInt(RFloor(RDiv(last_tick, unit))), unit)

AdjustorsAtPlace(tick_values, tick_place) ==
    [axis_subtractor |-> SubtractorAt(Last(tick_values), Pow10(tick_place + 1)),
     tick_divisor_power |-> _find_closest_prefix_power(Pow10(tick_place))]

AdjustorsWithStepPlace(tick_values, axis_divisor_power, step_place) ==
    IF 2 < (axis_divisor_power - step_place)
    THEN AdjustorsAtPlace(tick_values,
                          TickPlace(FloorLog10(RSub(Last(tick_values), tick_values[1])),
                                    step_place))
    ELSE NoSubtractor(axis_divisor_power)

\* math.log10 raises on 0
AdjustorsWithStep(tick_values, axis_divisor_power, min_step_size) ==
    IF min_step_size.err # "none" THEN Raise(min_step_size.err)
    ELSE IF min_step_size.val.n = 0 THEN Raise("math domain error")
    ELSE Ok(AdjustorsWithStepPlace(tick_values, axis_divisor_power,
                                   FloorLog10(min_step_size.val)))

AdjustorsWithPower(tick_values, axis_divisor_power) ==
    IF Len(tick_values) <= 1 THEN Ok(NoSubtractor(axis_divisor_power))
    ELSE AdjustorsWithStep(tick_values, axis_divisor_power,
                           _get_min_step_size(tick_values))

_get_axis_label_adjustors(tick_values) ==
    IF Len(tick_values) = 0 THEN Raise("list index out of range")
    ELSE AdjustorsWithPower(tick_values, _find_closest_prefix_power(Last(tick_values)))

\* strings are sequences of one-character strings
_get_metric_prefix(power) ==
    CASE power = 24 -> <<"Y">>
      [] power = 21 -> <<"Z">>
      [] power = 18 -> <<"E">>
      [] power = 15 -> <<"P">>
      [] power = 12 -> <<"T">>
      [] power = 9 -> <<"G">>
      [] power = 6 -> <<"M">>
      [] power = 3 -> <<"k">>
      [] power = -3 -> <<"m">>
      [] power = -6 -> <<"μ">>
      [] power = -9 -> <<"n">>
      [] power = -12 -> <<"p">>
      [] power = -15 -> <<"f">>
      [] power = -18 -> <<"a">>
      [] power = -21 -> <<"z">>
      [] power = -24 -> <<"y">>
      [] OTHER -> <<>>

DigitChar(i) == <<"0", "1", "2", "3", "4", "5", "6", "7", "8", "9">>[i + 1]

RECURSIVE Digits(_)
Digits(i) == IF i < 10 THEN <<DigitChar(i)>> ELSE Append(Digits(i \div 10), DigitChar(i % 10))

\* a non-negative number rounded to hundredths, ties to even
Hundredths(a) ==
    LET num == a.n * 100
        f == num \div a.d
        rem == num % a.d
    IN IF 2 * rem > a.d THEN f + 1
       ELSE IF 2 * rem < a.d THEN f
       ELSE IF f % 2 = 0 THEN f ELSE f + 1

FormatHundredths(negative, h) ==
    (IF negative THEN <<"-">> ELSE <<>>)
    \o Digits(h \div 100) \o <<".">>
    \o <<DigitChar((h % 100) \div 10), DigitChar(h % 10)>>

\* f"{x:0.2f}"
Format2f(x) == FormatHundredths(x.n < 0, Hundredths(RAbs(x)))

_make_tick_labels(tick_values, axis_subtractor, tick_divisor_power) ==
    [i \in DOMAIN tick_values |->
        Format2f(RDiv(RSub(tick_values[i], axis_subtractor), Pow10(tick_divisor_power)))
        \o _get_metric_prefix(tick_divisor_power)]

(***************************************************************************)
(* Ticks.  An optional argument is None or Some(list); `x or default`      *)
(* takes the default when x is None or an empty list.                      *)
(***************************************************************************)
None == [some |-> FALSE, v |-> <<>>]

Some(v) == [some |-> TRUE, v |-> v]

Truthy(x) == x.some /\ Len(x.v) > 0

\* TicksValidate without the check of max_ticks
TicksValidateRangeOnly(min_data, max_data, max_ticks) ==
    IF RLt(max_data, min_data) THEN "min_data must be less than or equal to max_data"
    ELSE "none"

\* the two checks that open Ticks.__post_init__
TicksValidate(min_data, max_data, max_ticks) ==
    IF RLt(max_data, min_data) THEN "min_data must be less than or equal to max_data"
    ELSE IF max_ticks < 1 THEN "max_ticks must be 1 or greater"
    ELSE "none"

\* len(tick_values) != len(tick_labels)
LengthsDiffer(tick_values, tick_labels) == Len(tick_values) # Len(tick_labels)

\* AxisSubtractorLabel without the test for 0
AxisSubtractorLabelAlways(axis_subtractor, axis_power) ==
    Some(Format2f(RDiv(axis_subtractor, Pow10(axis_power)))
         \o _get_metric_prefix(axis_power))

AxisSubtractorLabel(axis_subtractor, axis_power) ==
    IF axis_subtractor.n = 0
    THEN None
    ELSE Some(Format2f(RDiv(axis_subtractor, Pow10(axis_power)))
              \o _get_metric_prefix(axis_power))

TicksObject(min_data, max_data, max_ticks, tick_values, axis_power, adjustors, tick_labels) ==
    [min_data |-> min_data,
     max_data |-> max_data,
     max_ticks |-> max_ticks,
     tick_values |-> tick_values,
     axis_power |-> axis_power,
     axis_subtractor |-> adjustors.axis_subtractor,
     tick_divisor_power |-> adjustors.tick_divisor_power,
     tick_labels |-> tick_labels,
     axis_subtractor_label |-> AxisSubtractorLabel(adjustors.axis_subtractor, axis_power)]

TicksWithLabels(min_data, max_data, max_ticks, tick_values, adjustors, tick_labels) ==
    IF LengthsDiffer(tick_values, tick_labels)
    THEN Raise("ticks and tick labels were provided. They should be equal.")
    ELSE Ok(TicksObject(min_data, max_data, max_ticks, tick_values,
                        _find_closest_prefix_power(Last(tick_values)),
                        adjustors, tick_labels))

TicksWithAdjustors(min_data, max_data, max_ticks, tick_values, tick_labels_in, adjustors) ==
    IF adjustors.err # "none" THEN Raise(adjustors.err)
    ELSE TicksWithLabels(min_data, max_data, max_ticks, tick_values, adjustors.val,
                         IF Truthy(tick_labels_in)
                         THEN tick_labels_in.v
                         ELSE _make_tick_labels(tick_values,
                                                adjustors.val.axis_subtractor,
                                                adjustors.val.tick_divisor_power))

TicksWithValues(min_data, max_data, max_ticks, tick_values, tick_labels_in) ==
    IF tick_values.err # "none" THEN Raise(tick_values.err)
    ELSE TicksWithAdjustors(min_data, max_data, max_ticks, tick_values.val, tick_labels_in,
                            _get_axis_label_adjustors(tick_values.val))

Ticks__post_init__(min_data, max_data, max_ticks, tick_values_in, tick_labels_in) ==
    IF TicksValidate(min_data, max_data, max_ticks) # "none"
    THEN Raise(TicksValidate(min_data, max_data, max_ticks))
    ELSE TicksWithValues(min_data, max_data, max_ticks,
                         IF Truthy(tick_values_in)
                         THEN Ok(tick_values_in.v)
                         ELSE _get_tick_values(min_data, max_data, max_ticks),
                         tick_labels_in)

(***************************************************************************)
(* The characters mapping: a dict from key to glyph is a function on the   *)
(* set of its keys.                                                        *)
(***************************************************************************)
EmptyDict == [key \in {} |-> ""]

\* characters or {}
CharactersOrEmpty(characters) == IF characters.some THEN characters.v ELSE EmptyDict

\* dict.get(key, default)
Get(dict, key, default) == IF key \in DOMAIN dict THEN dict[key] ELSE default

(***************************************************************************)
(* The layout both axes share: ticks of `block` characters each, margins   *)
(* between them, and the space left over split into two paddings.          *)
(***************************************************************************)
\* TickMargin sharing the free space among the ticks instead of the gaps
TickMarginPerTick(space, total_tick_space, number_of_ticks) ==
    Max(IF 1 < number_of_ticks
        THEN (space - total_tick_space) \div number_of_ticks
        ELSE 0,
        0)

TickMargin(space, total_tick_space, number_of_ticks) ==
    Max(IF 1 < number_of_ticks
        THEN (space - total_tick_space) \div (number_of_ticks - 1)
        ELSE 0,
        0)

ExtraSpace(space, block, number_of_ticks, tick_margin) ==
    Max(space - (number_of_ticks * block + tick_margin * (number_of_ticks - 1)), 0)

\* left_padding / top_padding
LeadingPadding(extra_space) == extra_space \div 2

\* TrailingPadding as a second half rounded down
TrailingPaddingHalved(extra_space, leading_padding) == extra_space \div 2

\* right_padding / bottom_padding
TrailingPadding(extra_space, leading_padding) == Max(extra_space - leading_padding, 0)

LayoutWithExtra(tick_margin, extra_space) ==
    [tick_margin |-> tick_margin,
     leading_padding |-> LeadingPadding(extra_space),
     trailing_padding |-> TrailingPadding(extra_space, LeadingPadding(extra_space))]

LayoutWithMargin(space, block, number_of_ticks, tick_margin) ==
    LayoutWithExtra(tick_margin, ExtraSpace(space, block, number_of_ticks, tick_margin))

Layout(space, block, number_of_ticks) ==
    LayoutWithMargin(space, block, number_of_ticks,
                     TickMargin(space, number_of_ticks * block, number_of_ticks))

\* list(range(start, stop, step)) for step >= 1
PyRange(start, stop, step) ==
    [k \in 1..(IF start < stop THEN (stop - start + step - 1) \div step ELSE 0) |->
        start + (k - 1) * step]

(***************************************************************************)
(* XAxis.                                                                  *)
(***************************************************************************)
_make_xaxis_columns(number_of_ticks, tick_padding, left_padding, right_padding, tick_margin) ==
    <<[header |-> "left_padding", width |-> left_padding]>>
    \o [c \in 1..(2 * number_of_ticks - 1) |->
           IF (c - 1) % 2 = 0
           THEN [header |-> "xtick", width |-> 2 * tick_padding + 1]
           ELSE [header |-> "xtick_margin", width |-> tick_margin]]
    \o <<[header |-> "right_padding", width |-> right_padding]>>

XMaxTicks(width, tick_padding, min_tick_margin) ==
    1 + ((width - (2 * tick_padding + 1))
         \div ((2 * tick_padding + 1) + min_tick_margin))

XAxisObject(ticks, width, tick_padding, characters, show_ticks, number_of_xticks, layout) ==
    ticks @@
    [width |-> width,
     characters |-> CharactersOrEmpty(characters),
     show_ticks |-> show_ticks,
     tick_padding |-> tick_padding,
     number_of_xticks |-> number_of_xticks,
     tick_margin |-> layout.tick_margin,
     left_padding |-> layout.leading_padding,
     right_padding |-> layout.trailing_padding,
     tick_positions |-> PyRange(tick_padding + layout.leading_padding, width + 1,
                                layout.tick_margin + 2 * tick_padding + 1),
     table_columns |-> _make_xaxis_columns(number_of_xticks, tick_padding,
                                           layout.leading_padding,
                                           layout.trailing_padding,
                                           layout.tick_margin)]

XAxisWithTicks(super, width, tick_padding, characters, show_ticks) ==
    IF super.err # "none" THEN Raise(super.err)
    ELSE Ok(XAxisObject(super.val, width, tick_padding, characters, show_ticks,
                        Len(super.val.tick_values),
                        Layout(width, tick_padding * 2 + 1, Len(super.val.tick_values))))

\* XAxis__init__ letting a width of 2 * tick_padding through
XAxis__init__FitOffByOne(min_data, max_data, tick_padding, min_tick_margin, width, tick_values_in, tick_labels_in, characters, show_ticks) ==
    IF tick_padding < 0 \/ min_tick_margin < 0 \/ width < 0
    THEN Raise("tick_padding, min_tick_margin, and width must be 0 or greater")
    ELSE IF width < 2 * tick_padding
    THEN Raise("tick_padding is too large and will not fit in allocated width.")
    ELSE XAxisWithTicks(Ticks__post_init__(min_data, max_data,
                                           XMaxTicks(width, tick_padding, min_tick_margin),
                                           tick_values_in, tick_labels_in),
                        width, tick_padding, characters, show_ticks)

XAxis__init__(min_data, max_data, tick_padding, min_tick_margin, width, tick_values_in, tick_labels_in, characters, show_ticks) ==
    IF tick_padding < 0 \/ min_tick_margin < 0 \/ width < 0
    THEN Raise("tick_padding, min_tick_margin, and width must be 0 or greater")
    ELSE IF width < (2 * tick_padding) + 1
    THEN Raise("tick_padding is too large and will not fit in allocated width.")
    ELSE XAxisWithTicks(Ticks__post_init__(min_data, max_data,
                                           XMaxTicks(width, tick_padding, min_tick_margin),
                                           tick_values_in, tick_labels_in),
                        width, tick_padding, characters, show_ticks)

(***************************************************************************)
(* YAxis.                                                                  *)
(***************************************************************************)
YMaxTicks(length, min_tick_margin) == 1 + ((length - 1) \div (1 + min_tick_margin))

_make_yaxis_columns(width, position) ==
    IF position = "left"
    THEN <<[header |-> "ytick_label", width |-> width - 1],
           [header |-> "ytick", width |-> 1]>>
    ELSE <<[header |-> "ytick", width |-> 1],
           [header |-> "ytick_label", width |-> width - 1]>>

YAxisObject(ticks, length, width, position, characters, show_ticks, number_of_yticks, layout) ==
    ticks @@
    [position |-> position,
     width |-> width,
     length |-> length,
     show_ticks |-> show_ticks,
     characters |-> CharactersOrEmpty(characters),
     number_of_yticks |-> number_of_yticks,
     tick_margin |-> layout.tick_margin,
     top_padding |-> layout.leading_padding,
     bottom_padding |-> layout.trailing_padding,
     tick_positions |-> PyRange(layout.leading_padding, length + 1,
                                layout.tick_margin + 1),
     table_columns |-> _make_yaxis_columns(width, position)]

YAxisWithTicks(super, length, width, position, characters, show_ticks) ==
    IF super.err # "none" THEN Raise(super.err)
    ELSE Ok(YAxisObject(super.val, length, width, position, characters, show_ticks,
                        Len(super.val.tick_values),
                        Layout(length, 1, Len(super.val.tick_values))))

YAxis__init__(min_data, max_data, min_tick_margin, length, width, position, tick_values_in, tick_labels_in, characters, show_ticks) ==
    IF position \notin {"left", "right"} THEN Raise("position must be 'left' or 'right'")
    ELSE IF min_tick_margin < 0 \/ width < 0 \/ length < 0
    THEN Raise("min_tick_margin, width, and length must be 0 or greater")
    ELSE YAxisWithTicks(Ticks__post_init__(min_data, max_data,
                                           YMaxTicks(length, min_tick_margin),
                                           tick_values_in, tick_labels_in),
                        length, width, position, characters, show_ticks)

(***************************************************************************)
(* Rendering.  rich.text.Text(text, style=style) is the record of its      *)
(* plain text, a sequence of characters, and its style.                    *)
(***************************************************************************)
Text(text, style) == [text |-> text, style |-> style]

\* the box-drawing characters, by code point
HeavyHorizontal == "U+2501"

HeavyVertical == "U+2503"

HeavyVerticalAndRight == "U+2523"

HeavyVerticalAndLeft == "U+252B"

HeavyDownAndHorizontal == "U+2533"

\* n * [x]
Repeat(x, n) == [i \in 1..n |-> x]

\* x in set(seq)
Member(x, seq) == \E i \in DOMAIN seq : seq[i] = x

YTickCharacter(self, yline_character) ==
    IF ~self.show_ticks THEN yline_character
    ELSE IF self.position = "left" THEN Get(self.characters, "left_tick", HeavyVerticalAndLeft)
    ELSE Get(self.characters, "right_ytick", HeavyVerticalAndRight)

\* YLineRow marking the row below each tick position
YLineRowBelow(self, row, yline_character, ytick_character) ==
    IF Member(row - 1, self.tick_positions)
    THEN Text(<<ytick_character>>, "ytick")
    ELSE Text(<<yline_character>>, "yaxis")

YLineRow(self, row, yline_character, ytick_character) ==
    IF Member(row, self.tick_positions)
    THEN Text(<<ytick_character>>, "ytick")
    ELSE Text(<<yline_character>>, "yaxis")

\* the rows of range(top_padding, length - bottom_padding)
YLineRows(self, yline_character, ytick_character) ==
    [i \in 1..(self.length - self.bottom_padding - self.top_padding) |->
        YLineRow(self, self.top_padding + i - 1, yline_character, ytick_character)]

YLineWithCharacters(self, yline_character, ytick_character) ==
    Repeat(Text(<<yline_character>>, "yaxis"), self.top_padding)
    \o YLineRows(self, yline_character, ytick_character)
    \o Repeat(Text(<<yline_character>>, "yaxis"), self.bottom_padding)

YLineWithLine(self, yline_character) ==
    YLineWithCharacters(self, yline_character, YTickCharacter(self, yline_character))

yline(self) == YLineWithLine(self, Get(self.characters, "yline", HeavyVertical))

\* rich.text.Text.assemble: the texts joined, each part keeping its style
Assemble(parts) ==
    [text |-> parts[1].text \o parts[2].text \o parts[3].text, style |-> "", parts |-> parts]

XTickCharacter(self, xline_character) ==
    IF self.show_ticks
    THEN Get(self.characters, "xtick", HeavyDownAndHorizontal)
    ELSE xline_character

\* the fragment xline appends for one column
XLineCell(self, column, xline_character, xtick_character) ==
    IF column.header = "xtick"
    THEN Assemble(<<Text(Repeat(xline_character, self.tick_padding), "xaxis"),
                    Text(<<xtick_character>>, "xtick_label"),
                    Text(Repeat(xline_character, self.tick_padding), "xaxis")>>)
    ELSE IF column.header = "left_padding"
    THEN Text(Repeat(xline_character, self.left_padding), "xaxis")
    ELSE IF column.header = "right_padding"
    THEN Text(Repeat(xline_character, self.right_padding), "xaxis")
    ELSE Text(Repeat(xline_character, self.tick_margin), "xaxis")

XLineWithLine(self, xline_character) ==
    [c \in DOMAIN self.table_columns |->
        XLineCell(self, self.table_columns[c], xline_character,
                  XTickCharacter(self, xline_character))]

xline(self) == XLineWithLine(self, Get(self.characters, "xline", HeavyHorizontal))

\* how many labels tick_labels.pop(0) has taken once column c is done
PoppedAt(self, c) ==
    Cardinality({j \in 1..c : self.table_columns[j].header = "xtick"})

\* the fragment xtick_labels appends for column c
XLabelCell(self, c, xtick_spacing_character) ==
    IF self.table_columns[c].header = "xtick"
    THEN Text(self.tick_labels[PoppedAt(self, c)], "xtick_label")
    ELSE IF self.table_columns[c].header = "left_padding"
    THEN Text(Repeat(xtick_spacing_character, self.left_padding), "xtick_spacing")
    ELSE IF self.table_columns[c].header = "right_padding"
    THEN Text(Repeat(xtick_spacing_character, self.right_padding), "xtick_spacing")
    ELSE Text(Repeat(xtick_spacing_character, self.tick_margin), "xtick_spacing")

XLabelsWithSpacing(self, xtick_spacing_character) ==
    IF Len(self.tick_labels) < PoppedAt(self, Len(self.table_columns))
    THEN Raise("pop from empty list")
    ELSE Ok([c \in DOMAIN self.table_columns |->
                XLabelCell(self, c, xtick_spacing_character)])

xtick_labels(self) == XLabelsWithSpacing(self, Get(self.characters, "xtick_spacing", " "))

\* where s[:stop] ends and s[stop:] starts; a negative stop counts from the end
CutAt(s, stop) == IF stop >= 0 THEN Min(stop, Len(s)) ELSE Max(Len(s) + stop, 0)

\* s[:stop]
SliceTo(s, stop) == SubSeq(s, 1, CutAt(s, stop))

\* s[stop:]
SliceFrom(s, stop) == SubSeq(s, CutAt(s, stop) + 1, Len(s))

\* the walk of ytick_labels over the rows: the row it is at, the text left
\* over from the row above, the labels not yet popped, the rows emitted
WalkState(row, leftover, tick_labels, out, err) ==
    [row |-> row, leftover |-> leftover, tick_labels |-> tick_labels, out |-> out, err |-> err]

\* label_width < len(full_label) and (row + 1) not in tick_positions
YLabelsMayCut(self, row, full_label) ==
    /\ (self.width - 1) < Len(full_label)
    /\ ~Member(row + 1, self.tick_positions)

YLabelsEmit(self, st, full_label, tick_labels) ==
    IF YLabelsMayCut(self, st.row, full_label)
    THEN WalkState(st.row + 1, Some(SliceFrom(full_label, self.width - 1)), tick_labels,
                   Append(st.out, Text(SliceTo(full_label, self.width - 1), "ytick_label")),
                   "none")
    ELSE WalkState(st.row + 1, None, tick_labels,
                   Append(st.out, Text(full_label, "ytick_label")), "none")

\* YLabelsStep popping the labels from the front
YLabelsStepPopFirst(self, ytick_spacing_character, st) ==
    IF Member(st.row, self.tick_positions) \/ Truthy(st.leftover)
    THEN IF Truthy(st.leftover) THEN YLabelsEmit(self, st, st.leftover.v, st.tick_labels)
         ELSE IF Len(st.tick_labels) = 0
         THEN WalkState(st.row, st.leftover, st.tick_labels, st.out, "pop from empty list")
         ELSE YLabelsEmit(self, st, Head(st.tick_labels), Tail(st.tick_labels))
    ELSE WalkState(st.row + 1, st.leftover, st.tick_labels,
                   Append(st.out, Text(<<ytick_spacing_character>>, "ytick_spacing")),
                   "none")

\* one pass of the loop body, for row st.row
YLabelsStep(self, ytick_spacing_character, st) ==
    IF Member(st.row, self.tick_positions) \/ Truthy(st.leftover)
    THEN IF Truthy(st.leftover) THEN YLabelsEmit(self, st, st.leftover.v, st.tick_labels)
         ELSE IF Len(st.tick_labels) = 0
         THEN WalkState(st.row, st.leftover, st.tick_labels, st.out, "pop from empty list")
         ELSE YLabelsEmit(self, st, Last(st.tick_labels),
                          SubSeq(st.tick_labels, 1, Len(st.tick_labels) - 1))
    ELSE WalkState(st.row + 1, st.leftover, st.tick_labels,
                   Append(st.out, Text(<<ytick_spacing_character>>, "ytick_spacing")),
                   "none")

\* for row in range(top_padding, length - bottom_padding)
RECURSIVE YLabelsWalk(_, _, _)
YLabelsWalk(self, ytick_spacing_character, st) ==
    IF st.err # "none" \/ st.row >= self.length - self.bottom_padding THEN st
    ELSE YLabelsWalk(self, ytick_spacing_character,
                     YLabelsStep(self, ytick_spacing_character, st))

\* the states the loop goes through: before each pass, and when it ends
RECURSIVE YLabelsTrace(_, _, _)
YLabelsTrace(self, ytick_spacing_character, st) ==
    IF st.err # "none" \/ st.row >= self.length - self.bottom_padding THEN <<st>>
    ELSE <<st>> \o YLabelsTrace(self, ytick_spacing_character,
                                YLabelsStep(self, ytick_spacing_character, st))

YLabelsAfterWalk(self, ytick_spacing_character, st) ==
    IF st.err # "none" THEN Raise(st.err)
    ELSE Ok(st.out \o Repeat(Text(<<ytick_spacing_character>>, "ytick_spacing"),
                             self.bottom_padding))

YLabelsWithSpacing(self, ytick_spacing_character) ==
    YLabelsAfterWalk(self, ytick_spacing_character,
        YLabelsWalk(self, ytick_spacing_character,
            WalkState(self.top_padding, None, self.tick_labels,
                      Repeat(Text(<<ytick_spacing_character>>, "ytick_spacing"),
                             self.top_padding),
                      "none")))

ytick_labels(self) == YLabelsWithSpacing(self, Get(self.characters, "ytick_spacing", " "))

\* tick_labels = self.tick_labels, the stored list itself
CopyListShared(list) == [items |-> list, shared |-> TRUE]

\* tick_labels = self.tick_labels.copy(): a list of its own with the same items
CopyList(list) == [items |-> list, shared |-> FALSE]

\* self.tick_labels once the local list has been popped down to `rest`
StoredAfter(local, rest) == IF local.shared THEN rest ELSE local.items

\* what tick_labels.pop(0), once per "xtick" column, leaves in the local list
XLabelsRest(self) ==
    SubSeq(self.tick_labels,
           Min(PoppedAt(self, Len(self.table_columns)), Len(self.tick_labels)) + 1,
           Len(self.tick_labels))

\* the XAxis after self.xtick_labels()
XAxisAfterLabels(self) ==
    [self EXCEPT !.tick_labels = StoredAfter(CopyList(self.tick_labels), XLabelsRest(self))]

\* what the walk of ytick_labels leaves in the local list
YLabelsRest(self, ytick_spacing_character) ==
    YLabelsWalk(self, ytick_spacing_character,
                WalkState(self.top_padding, None, self.tick_labels, <<>>, "none")).tick_labels

\* the YAxis after self.ytick_labels()
YAxisAfterLabels(self) ==
    [self EXCEPT !.tick_labels =
        StoredAfter(CopyList(self.tick_labels),
                    YLabelsRest(self, Get(self.characters, "ytick_spacing", " ")))]

(***************************************************************************)
(* The state machine: one call at a time, applied to enumerated inputs.    *)
(***************************************************************************)
DataVals == {RInt(i) : i \in (-DataBelow)..DataHi}

\* the values callers supply as ticks, and the lists built from them
TickPool == {RInt(0), RInt(1), RInt(2), RInt(10), Rat(1, 2),
             RInt(1000003), RInt(1000004), RInt(1000005), RInt(1000015),
             RInt(1009995)}

SeqsUpTo(S, maxlen) == UNION {[1..len -> S] : len \in 0..maxlen}

SuppliedPool == {RInt(1), RInt(2), RInt(1000004), RInt(1000005)}

SuppliedTicks == {None} \cup {Some(t) : t \in SeqsUpTo(SuppliedPool, MaxSupplied)}

SuppliedLabels ==
    {None} \cup {Some(l) : l \in SeqsUpTo({<<"a", "b">>}, MaxSupplied + 1)}

\* labels longer than the column of a narrow y axis
LongLabels == Some(<<<<"z", "z", "y", "y", "x", "x">>,
                     <<"a", "a", "b", "b", "c", "c", "d", "d", "e", "e">>>>)

SuppliedData == {RInt(0), RInt(1)}

NoRet == [err |-> "none", val |-> <<>>]

Init ==
    /\ pc = "idle"
    /\ op = "none"
    /\ arg = <<>>
    /\ ret = NoRet

\* the numbers callers round: each leading term at, between and beyond the
\* limits, in several decades
RoundPool ==
    {Rat(n, d) : n \in {1, 2, 3, 5, 7, 8, 15, 30, 70, 1003}, d \in {1, 10, 1000}}

\* the ascending limit tuples the module passes
LimitTuples == {RangeLimits, SpacingLimits}

RoundNumber ==
    /\ pc = "idle"
    /\ \E number \in RoundPool, limits \in LimitTuples, allow_equal \in BOOLEAN :
        /\ op' = "_round_number"
        /\ arg' = [number |-> number, limits |-> limits,
                   rounding_terms |-> NiceTerms, allow_equal |-> allow_equal]
        /\ ret' = Ok(_round_number(number, limits, NiceTerms, allow_equal))
    /\ pc' = "returned"

\* the numbers whose prefix power callers ask for, from 1e-31 to 9.99e32
PrefixPool ==
    {Scaled(x, e) : x \in {RInt(0), RInt(1), RInt(-1), RInt(2), RInt(-200), RInt(999),
                           Rat(1, 10), Rat(-5, 100)},
                   e \in {-30, -25, -24, -22, -3, -1, 0, 1, 3, 6, 8, 24, 25, 27, 30}}

FindClosestPrefixPower ==
    /\ pc = "idle"
    /\ \E number \in PrefixPool :
        /\ op' = "_find_closest_prefix_power"
        /\ arg' = [number |-> number]
        /\ ret' = Ok(_find_closest_prefix_power(number))
    /\ pc' = "returned"

GetTickValues ==
    /\ pc = "idle"
    /\ \E min_data \in DataVals, max_data \in DataVals, max_ticks \in -1..MaxTicksHi :
        /\ op' = "_get_tick_values"
        /\ arg' = [min_data |-> min_data, max_data |-> max_data, max_ticks |-> max_ticks]
        /\ ret' = _get_tick_values(min_data, max_data, max_ticks)
    /\ pc' = "returned"

GetAxisLabelAdjustors ==
    /\ pc = "idle"
    /\ \E tick_values \in SeqsUpTo(TickPool, MaxSeqLen) :
        /\ op' = "_get_axis_label_adjustors"
        /\ arg' = [tick_values |-> tick_values]
        /\ ret' = _get_axis_label_adjustors(tick_values)
    /\ pc' = "returned"

GetMinStepSize ==
    /\ pc = "idle"
    /\ \E tick_values \in SeqsUpTo(TickPool, MaxSeqLen) :
        /\ op' = "_get_min_step_size"
        /\ arg' = [tick_values |-> tick_values]
        /\ ret' = _get_min_step_size(tick_values)
    /\ pc' = "returned"

TicksArg(min_data, max_data, max_ticks, tick_values, tick_labels) ==
    [min_data |-> min_data, max_data |-> max_data, max_ticks |-> max_ticks,
     tick_values |-> tick_values, tick_labels |-> tick_labels]

\* Ticks(min_data, max_data, max_ticks)
NewTicks ==
    /\ pc = "idle"
    /\ \E min_data \in DataVals, max_data \in DataVals, max_ticks \in -1..MaxTicksHi :
        /\ op' = "Ticks"
        /\ arg' = TicksArg(min_data, max_data, max_ticks, None, None)
        /\ ret' = Ticks__post_init__(min_data, max_data, max_ticks, None, None)
    /\ pc' = "returned"

\* Ticks(min_data, max_data, max_ticks, tick_values=..., tick_labels=...)
NewTicksSupplied ==
    /\ pc = "idle"
    /\ \E min_data \in SuppliedData, max_data \in SuppliedData,
          max_ticks \in -1..MaxTicksHi,
          tick_values \in SuppliedTicks, tick_labels \in SuppliedLabels :
        /\ op' = "Ticks"
        /\ arg' = TicksArg(min_data, max_data, max_ticks, tick_values, tick_labels)
        /\ ret' = Ticks__post_init__(min_data, max_data, max_ticks,
                                     tick_values, tick_labels)
    /\ pc' = "returned"

XAxisArg(min_data, max_data, tick_padding, min_tick_margin, width, tick_values, tick_labels, characters, show_ticks) ==
    [min_data |-> min_data, max_data |-> max_data, tick_padding |-> tick_padding,
     min_tick_margin |-> min_tick_margin, width |-> width,
     tick_values |-> tick_values, tick_labels |-> tick_labels,
     characters |-> characters, show_ticks |-> show_ticks]

\* XAxis(min_data, max_data, tick_padding, min_tick_margin, width)
NewXAxis ==
    /\ pc = "idle"
    /\ \E min_data \in DataVals, max_data \in DataVals,
          tick_padding \in -1..MaxPadding, min_tick_margin \in -1..MaxMargin,
          width \in -1..MaxWidth :
        /\ op' = "XAxis"
        /\ arg' = XAxisArg(min_data, max_data, tick_padding, min_tick_margin, width,
                           None, None, None, TRUE)
        /\ ret' = XAxis__init__(min_data, max_data, tick_padding, min_tick_margin,
                                width, None, None, None, TRUE)
    /\ pc' = "returned"

\* XAxis(..., tick_values=..., tick_labels=...)
NewXAxisSupplied ==
    /\ pc = "idle"
    /\ \E min_data \in SuppliedData, max_data \in SuppliedData,
          tick_padding \in 0..MaxPadding, min_tick_margin \in 0..MaxMargin,
          width \in 0..MaxWidth,
          tick_values \in SuppliedTicks, tick_labels \in SuppliedLabels :
        /\ op' = "XAxis"
        /\ arg' = XAxisArg(min_data, max_data, tick_padding, min_tick_margin, width,
                           tick_values, tick_labels, None, TRUE)
        /\ ret' = XAxis__init__(min_data, max_data, tick_padding, min_tick_margin,
                                width, tick_values, tick_labels, None, TRUE)
    /\ pc' = "returned"

YAxisArg(min_data, max_data, min_tick_margin, length, width, position, tick_values, tick_labels, characters, show_ticks) ==
    [min_data |-> min_data, max_data |-> max_data,
     min_tick_margin |-> min_tick_margin, length |-> length, width |-> width,
     position |-> position, tick_values |-> tick_values, tick_labels |-> tick_labels,
     characters |-> characters, show_ticks |-> show_ticks]

Positions == {"left", "right", "bad value"}

\* the widths of a y axis: too narrow for a label, and wide enough
LabelWidths == (0..MaxLabelWidth) \cup {10}

\* YAxis(min_data, max_data, min_tick_margin, length, width, position)
NewYAxis ==
    /\ pc = "idle"
    /\ \E min_data \in DataVals, max_data \in DataVals,
          min_tick_margin \in -1..MaxMargin, length \in -1..MaxLength,
          width \in {-1} \cup LabelWidths, position \in Positions :
        /\ op' = "YAxis"
        /\ arg' = YAxisArg(min_data, max_data, min_tick_margin, length, width,
                           position, None, None, None, TRUE)
        /\ ret' = YAxis__init__(min_data, max_data, min_tick_margin, length, width,
                                position, None, None, None, TRUE)
    /\ pc' = "returned"

\* YAxis(..., tick_values=..., tick_labels=...)
NewYAxisSupplied ==
    /\ pc = "idle"
    /\ \E min_data \in SuppliedData, max_data \in SuppliedData,
          min_tick_margin \in 0..MaxMargin, length \in 0..MaxLength,
          width \in 0..MaxLabelWidth, position \in {"left", "right"},
          tick_values \in SuppliedTicks, tick_labels \in SuppliedLabels \cup {LongLabels} :
        /\ RLe(min_data, max_data)
        /\ op' = "YAxis"
        /\ arg' = YAxisArg(min_data, max_data, min_tick_margin, length, width,
                           position, tick_values, tick_labels, None, TRUE)
        /\ ret' = YAxis__init__(min_data, max_data, min_tick_margin, length, width,
                                position, tick_values, tick_labels, None, TRUE)
    /\ pc' = "returned"

\* the glyph a caller overrides a key with
OverrideGlyph(key) ==
    CASE key = "xline" -> "-"
      [] key = "xtick" -> "+"
      [] key = "xtick_spacing" -> "_"
      [] key = "yline" -> "|"
      [] key = "left_ytick" -> "<"
      [] key = "left_tick" -> "{"
      [] key = "right_ytick" -> ">"
      [] key = "ytick_spacing" -> "."

\* no mapping, the empty one, one key overridden, all keys overridden
CharacterMaps(keys) ==
    {None} \cup {Some([key \in chosen |-> OverrideGlyph(key)]) :
                    chosen \in {{}} \cup {{key} : key \in keys} \cup {keys}}

YKeys == {"yline", "left_ytick", "left_tick", "right_ytick", "ytick_spacing"}

\* YAxis(..., characters=..., show_ticks=...)
NewYAxisStyled ==
    /\ pc = "idle"
    /\ \E max_data \in SuppliedData,
          min_tick_margin \in 0..MaxMargin, length \in 0..MaxLength,
          width \in LabelWidths, position \in {"left", "right"},
          characters \in CharacterMaps(YKeys), show_ticks \in BOOLEAN :
        /\ op' = "YAxis"
        /\ arg' = YAxisArg(RInt(0), max_data, min_tick_margin, length, width,
                           position, None, None, characters, show_ticks)
        /\ ret' = YAxis__init__(RInt(0), max_data, min_tick_margin, length, width,
                                position, None, None, characters, show_ticks)
    /\ pc' = "returned"

XKeys == {"xline", "xtick", "xtick_spacing"}

\* XAxis(..., characters=..., show_ticks=...)
NewXAxisStyled ==
    /\ pc = "idle"
    /\ \E max_data \in SuppliedData,
          tick_padding \in 0..MaxPadding, min_tick_margin \in 0..MaxMargin,
          width \in 0..MaxWidth,
          characters \in CharacterMaps(XKeys), show_ticks \in BOOLEAN :
        /\ op' = "XAxis"
        /\ arg' = XAxisArg(RInt(0), max_data, tick_padding, min_tick_margin, width,
                           None, None, characters, show_ticks)
        /\ ret' = XAxis__init__(RInt(0), max_data, tick_padding, min_tick_margin,
                                width, None, None, characters, show_ticks)
    /\ pc' = "returned"

\* a method can be called on an object once constructed, any number of times
CanRender(class, methods) ==
    /\ pc = "returned"
    /\ \/ op = class /\ ret.err = "none"
       \/ op \in methods

Self == IF op \in {"XAxis", "YAxis"} THEN ret.val ELSE arg.self

\* the object as its constructor returned it
Built == IF op \in {"XAxis", "YAxis"} THEN ret.val ELSE arg.built

\* whether the caller has called `method` on the object before
CalledBefore(method) == op \notin {"XAxis", "YAxis"} /\ method \in DOMAIN arg.first

\* what each method returned the first time the caller called it
FirstResults(method, result) ==
    IF op \in {"XAxis", "YAxis"} THEN (method :> result)
    ELSE IF method \in DOMAIN arg.first THEN arg.first
    ELSE arg.first @@ (method :> result)

\* what the caller holds after object.method(): the object as the call left
\* it, as it was built, and the results seen so far
RenderArg(self_after, method, result) ==
    [self |-> self_after, built |-> Built,
     again |-> CalledBefore(method), first |-> FirstResults(method, result)]

YMethods == {"yline", "ytick_labels"}

XMethods == {"xline", "xtick_labels"}

\* self.xline()
XLine ==
    /\ CanRender("XAxis", XMethods)
    /\ op' = "xline"
    /\ arg' = RenderArg(Self, "xline", Ok(xline(Self)))
    /\ ret' = Ok(xline(Self))
    /\ pc' = "returned"

\* self.xtick_labels()
XTickLabels ==
    /\ CanRender("XAxis", XMethods)
    /\ op' = "xtick_labels"
    /\ arg' = RenderArg(XAxisAfterLabels(Self), "xtick_labels", xtick_labels(Self))
    /\ ret' = xtick_labels(Self)
    /\ pc' = "returned"

\* self.yline()
YLine ==
    /\ CanRender("YAxis", YMethods)
    /\ op' = "yline"
    /\ arg' = RenderArg(Self, "yline", Ok(yline(Self)))
    /\ ret' = Ok(yline(Self))
    /\ pc' = "returned"

\* self.ytick_labels()
YTickLabels ==
    /\ CanRender("YAxis", YMethods)
    /\ op' = "ytick_labels"
    /\ arg' = RenderArg(YAxisAfterLabels(Self), "ytick_labels", ytick_labels(Self))
    /\ ret' = ytick_labels(Self)
    /\ pc' = "returned"

\* the caller takes the result; the next call starts from scratch
Return ==
    /\ pc = "returned"
    /\ pc' = "idle"
    /\ op' = "none"
    /\ arg' = <<>>
    /\ ret' = NoRet

Next ==
    \/ RoundNumber
    \/ FindClosestPrefixPower
    \/ GetTickValues
    \/ GetAxisLabelAdjustors
    \/ GetMinStepSize
    \/ NewTicks
    \/ NewTicksSupplied
    \/ NewXAxis
    \/ NewXAxisSupplied
    \/ NewYAxis
    \/ NewYAxisSupplied
    \/ NewYAxisStyled
    \/ NewXAxisStyled
    \/ XLine
    \/ XTickLabels
    \/ YLine
    \/ YTickLabels
    \/ Return

Spec == Init /\ [][Next]_vars

(***************************************************************************)
(* Properties.                                                             *)
(***************************************************************************)
Returned(name) == pc = "returned" /\ op = name

Constructed(name) == Returned(name) /\ ret.err = "none"

RECURSIVE SumWidths(_)
SumWidths(columns) ==
    IF Len(columns) = 0 THEN 0 ELSE columns[1].width + SumWidths(Tail(columns))

StrictlyAscending(seq) == \A i \in 1..(Len(seq) - 1) : RLt(seq[i], seq[i + 1])

NonDescending(seq) == \A i \in 1..(Len(seq) - 1) : RLe(seq[i], seq[i + 1])

HasZeroGap(seq) == \E i \in 1..(Len(seq) - 1) : seq[i] = seq[i + 1]

EvenlySplit(seq, lo, hi) ==
    \A i \in DOMAIN seq :
        seq[i] = RAdd(lo, RDiv(RMul(RInt(i - 1), RSub(hi, lo)), RInt(Len(seq) - 1)))

\* the call reaches the even-split fallback of _get_tick_values
InFallback(a) ==
    /\ RLt(a.min_data, a.max_data)
    /\ a.max_ticks >= 2
    /\ a.max_ticks < NiceTicks(a.min_data, a.max_data, a.max_ticks).number_of_ticks

\* C1: an XAxis built with computed ticks has column widths (left padding,
\* the tick blocks of 2*tick_padding+1, the margins between them, right
\* padding) that sum to exactly width.
C1_ColumnWidthsSumToWidth ==
    (Constructed("XAxis") /\ ~Truthy(arg.tick_values)) =>
        /\ arg.tick_padding >= 0 /\ arg.min_tick_margin >= 0
        /\ 2 * arg.tick_padding < arg.width
        /\ RLe(arg.min_data, arg.max_data)
        /\ Len(ret.val.table_columns) = 2 * ret.val.number_of_xticks + 1
        /\ SumWidths(ret.val.table_columns) = arg.width
        /\ ret.val.left_padding
           + ret.val.number_of_xticks * (2 * arg.tick_padding + 1)
           + (ret.val.number_of_xticks - 1) * ret.val.tick_margin
           + ret.val.right_padding = arg.width

C1_Witness ==
    /\ Constructed("XAxis") /\ ~Truthy(arg.tick_values)
    /\ ret.val.number_of_xticks >= 3
    /\ ret.val.tick_margin > 0
    /\ ret.val.left_padding < ret.val.right_padding
    /\ arg.tick_padding > 0

\* C2 as stated: for min_data <= max_data and max_ticks >= 1 the ticks are
\* non-empty, strictly ascending, start at or below min_data and end at or
\* above max_data, except in the fallback branch, which starts at min_data,
\* ends at max_data and splits the range evenly.
C2_TicksCoverData ==
    (Returned("_get_tick_values") /\ RLe(arg.min_data, arg.max_data)
        /\ arg.max_ticks >= 1) =>
        /\ ret.err = "none"
        /\ Len(ret.val) >= 1
        /\ StrictlyAscending(ret.val)
        /\ IF InFallback(arg)
           THEN /\ ret.val[1] = arg.min_data
                /\ Last(ret.val) = arg.max_data
                /\ EvenlySplit(ret.val, arg.min_data, arg.max_data)
           ELSE /\ RLe(ret.val[1], arg.min_data)
                /\ RLe(arg.max_data, Last(ret.val))

\* C2 amended: as C2, with a second exception: for max_ticks = 1 and
\* min_data < max_data the single tick is the midpoint of the data bounds.
C2_TicksCoverDataOrMidpoint ==
    (Returned("_get_tick_values") /\ RLe(arg.min_data, arg.max_data)
        /\ arg.max_ticks >= 1) =>
        /\ ret.err = "none"
        /\ Len(ret.val) >= 1
        /\ StrictlyAscending(ret.val)
        /\ IF InFallback(arg)
           THEN /\ ret.val[1] = arg.min_data
                /\ Last(ret.val) = arg.max_data
                /\ EvenlySplit(ret.val, arg.min_data, arg.max_data)
           ELSE IF arg.max_ticks = 1 /\ arg.min_data # arg.max_data
           THEN /\ Len(ret.val) = 1
                /\ RAdd(ret.val[1], ret.val[1]) = RAdd(arg.min_data, arg.max_data)
           ELSE /\ RLe(ret.val[1], arg.min_data)
                /\ RLe(arg.max_data, Last(ret.val))

C2_Witness ==
    /\ Returned("_get_tick_values")
    /\ arg.max_ticks >= 3
    /\ ~InFallback(arg)
    /\ ret.err = "none"
    /\ Len(ret.val) >= 3
    /\ RLt(ret.val[1], arg.min_data)
    /\ RLt(arg.max_data, Last(ret.val))

\* C3: the number of computed ticks is at least 1 and at most max_ticks, and
\* at least 2 when min_data # max_data and max_ticks >= 2; so an XAxis with
\* computed ticks has between 1 and
\* 1 + floor((width - (2*tick_padding+1)) / ((2*tick_padding+1) + min_tick_margin))
\* ticks.
C3_TickCountWithinBudget ==
    /\ (Returned("_get_tick_values") /\ RLe(arg.min_data, arg.max_data)
            /\ arg.max_ticks >= 1) =>
        /\ ret.err = "none"
        /\ 1 <= Len(ret.val) /\ Len(ret.val) <= arg.max_ticks
        /\ (arg.min_data # arg.max_data /\ arg.max_ticks >= 2) => Len(ret.val) >= 2
    /\ (Constructed("XAxis") /\ ~Truthy(arg.tick_values)) =>
        /\ ret.val.number_of_xticks = Len(ret.val.tick_values)
        /\ 1 <= ret.val.number_of_xticks
        /\ ret.val.number_of_xticks
             <= 1 + ((arg.width - (2 * arg.tick_padding + 1))
                     \div ((2 * arg.tick_padding + 1) + arg.min_tick_margin))

C3_Witness ==
    /\ Constructed("XAxis") /\ ~Truthy(arg.tick_values)
    /\ arg.min_tick_margin > 0
    /\ ret.val.number_of_xticks >= 2
    /\ ret.val.number_of_xticks
         = 1 + ((arg.width - (2 * arg.tick_padding + 1))
                \div ((2 * arg.tick_padding + 1) + arg.min_tick_margin))

\* C4: when the nice-number range would need more than max_ticks ticks, the
\* result is exactly max_ticks ticks, evenly spaced by
\* data_range / (max_ticks - 1), from min_data to max_data; (0, 6, 2) gives
\* [0, 6].
C4_FallbackEvenSplit ==
    /\ (Returned("_get_tick_values") /\ InFallback(arg)) =>
        /\ ret.err = "none"
        /\ Len(ret.val) = arg.max_ticks
        /\ ret.val[1] = arg.min_data
        /\ Last(ret.val) = arg.max_data
        /\ \A i \in 1..(Len(ret.val) - 1) :
              RMul(RSub(ret.val[i + 1], ret.val[i]), RInt(arg.max_ticks - 1))
                = RSub(arg.max_data, arg.min_data)
    /\ (Returned("_get_tick_values") /\ arg.min_data = RInt(0)
            /\ arg.max_data = RInt(6) /\ arg.max_ticks = 2) =>
        ret = Ok(<<RInt(0), RInt(6)>>)

C4_Witness ==
    /\ Returned("_get_tick_values") /\ InFallback(arg)
    /\ arg.max_ticks >= 3
    /\ ret.err = "none"
    /\ ret.val[2].d > 1

C6_InvalidCountAlwaysFails ==
    (Returned("_get_tick_values") /\ arg.max_ticks < 1) =>
        ret.err = "max_ticks must be greater than 0"

\* C7: constructing Ticks (and so XAxis, YAxis) fails when
\* min_data > max_data and when max_ticks < 1, whether or not tick values or
\* labels are supplied; no constructed object has min_data > max_data or
\* max_ticks < 1.
C7_InvalidRangeOrCountFails ==
    /\ (Returned("Ticks") /\ RLt(arg.max_data, arg.min_data)) =>
        ret.err = "min_data must be less than or equal to max_data"
    /\ (Returned("Ticks") /\ arg.max_ticks < 1) => ret.err # "none"
    /\ (Returned("Ticks") /\ arg.max_ticks < 1 /\ RLe(arg.min_data, arg.max_data)) =>
        ret.err = "max_ticks must be 1 or greater"
    /\ ((Returned("XAxis") \/ Returned("YAxis")) /\ RLt(arg.max_data, arg.min_data)) =>
        ret.err # "none"
    /\ (Constructed("Ticks") \/ Constructed("XAxis") \/ Constructed("YAxis")) =>
        /\ RLe(ret.val.min_data, ret.val.max_data)
        /\ ret.val.max_ticks >= 1

C7_Witness ==
    /\ Returned("Ticks")
    /\ arg.max_ticks < 1
    /\ RLe(arg.min_data, arg.max_data)
    /\ Truthy(arg.tick_values) /\ Truthy(arg.tick_labels)
    /\ Len(arg.tick_values.v) = Len(arg.tick_labels.v)
    /\ StrictlyAscending(arg.tick_values.v)
    /\ ret.err = "max_ticks must be 1 or greater"

\* C8: when the caller supplies tick_values and tick_labels of different
\* lengths (an empty list included), construction fails.
C8_LengthMismatchFails ==
    (Returned("Ticks") /\ arg.tick_values.some /\ arg.tick_labels.some
        /\ Len(arg.tick_values.v) # Len(arg.tick_labels.v)) =>
        ret.err # "none"

\* C9: on 2 or more ticks _get_axis_label_adjustors fails with the ordering
\* error exactly when some adjacent pair is descending, wherever the pair is.
C9_OrderingErrorIffDescending ==
    (Returned("_get_axis_label_adjustors") /\ Len(arg.tick_values) >= 2) =>
        (ret.err = "Ticks must be in ascending order."
            <=> ~NonDescending(arg.tick_values))

C9_Witness ==
    /\ Returned("_get_axis_label_adjustors")
    /\ Len(arg.tick_values) >= 4
    /\ RLt(arg.tick_values[1], arg.tick_values[2])
    /\ RLt(arg.tick_values[2], arg.tick_values[3])
    /\ RLt(arg.tick_values[4], arg.tick_values[3])
    /\ ret.err = "Ticks must be in ascending order."

\* C10: for a non-descending sequence of 2 or more ticks whose smallest
\* adjacent gap is 0, _get_axis_label_adjustors returns without error, with
\* axis_subtractor = 0 and divisor power = the axis power; so does Ticks
\* construction with such tick_values.
C10_DuplicateTicksTolerated ==
    /\ (Returned("_get_axis_label_adjustors") /\ Len(arg.tick_values) >= 2
            /\ NonDescending(arg.tick_values) /\ HasZeroGap(arg.tick_values)) =>
        ret = Ok([axis_subtractor |-> RInt(0),
                  tick_divisor_power |->
                      _find_closest_prefix_power(Last(arg.tick_values))])
    /\ (Returned("Ticks") /\ TicksValidate(arg.min_data, arg.max_data, arg.max_ticks) = "none"
            /\ Truthy(arg.tick_values) /\ ~arg.tick_labels.some
            /\ NonDescending(arg.tick_values.v) /\ HasZeroGap(arg.tick_values.v)) =>
        ret.err = "none"

\* the smallest gap between adjacent ticks
MinGap(seq) ==
    CHOOSE g \in {StepAt(seq, i) : i \in 1..(Len(seq) - 1)} :
        \A j \in 1..(Len(seq) - 1) : RLe(g, StepAt(seq, j))

\* a gap within 0.1% below the next power of ten counts as that power
GapPlace(g) ==
    IF RLt(RSub(Pow10(FloorLog10(g) + 1), g), RDiv(g, RInt(1000)))
    THEN FloorLog10(g) + 1
    ELSE FloorLog10(g)

PowerOfLast(seq) == _find_closest_prefix_power(Last(seq))

PlaceOfRange(seq) == FloorLog10(RSub(Last(seq), seq[1]))

ScaleAtPlace(seq, p) ==
    [axis_subtractor |-> RMul(RInt(RFloor(RDiv(Last(seq), Pow10(p + 1)))), Pow10(p + 1)),
     tick_divisor_power |-> _find_closest_prefix_power(Pow10(p))]

ScaleWithStepPlace(seq, step_place) ==
    IF PowerOfLast(seq) - step_place > 2
    THEN ScaleAtPlace(seq, IF PlaceOfRange(seq) - step_place > 2
                           THEN step_place
                           ELSE PlaceOfRange(seq))
    ELSE [axis_subtractor |-> RInt(0), tick_divisor_power |-> PowerOfLast(seq)]

\* C11: for 2 or more strictly ascending ticks, with step_place the place of
\* the (rounded-off) smallest gap, _get_axis_label_adjustors subtracts exactly
\* when axis_power - step_place > 2, returning
\* floor(last / 10^(p+1)) * 10^(p+1) and the prefix power of 10^p, where p is
\* step_place if floor(log10(last - first)) - step_place > 2 and
\* floor(log10(last - first)) otherwise; in every other case, and for a
\* single tick, it returns 0 and axis_power.  [1000003, 1000004, 1000005]
\* gives (1000000, 0).
C11_ScaleSelection ==
    /\ (Returned("_get_axis_label_adjustors") /\ Len(arg.tick_values) >= 2
            /\ StrictlyAscending(arg.tick_values)) =>
        /\ ret = Ok(ScaleWithStepPlace(arg.tick_values, GapPlace(MinGap(arg.tick_values))))
        /\ (ret.val.axis_subtractor.n # 0) =>
              PowerOfLast(arg.tick_values) - GapPlace(MinGap(arg.tick_values)) > 2
    /\ (Returned("_get_axis_label_adjustors") /\ Len(arg.tick_values) = 1) =>
        ret = Ok([axis_subtractor |-> RInt(0),
                  tick_divisor_power |-> PowerOfLast(arg.tick_values)])
    /\ (Returned("_get_axis_label_adjustors")
            /\ arg.tick_values = <<RInt(1000003), RInt(1000004), RInt(1000005)>>) =>
        ret = Ok([axis_subtractor |-> RInt(1000000), tick_divisor_power |-> 0])

C11_Witness ==
    /\ Returned("_get_axis_label_adjustors")
    /\ Len(arg.tick_values) >= 3
    /\ StrictlyAscending(arg.tick_values)
    /\ PlaceOfRange(arg.tick_values) > GapPlace(MinGap(arg.tick_values))
    /\ PlaceOfRange(arg.tick_values) - GapPlace(MinGap(arg.tick_values)) <= 2
    /\ ret.err = "none"
    /\ ret.val.axis_subtractor.n # 0

\* C12: in every constructed Ticks, XAxis or YAxis, axis_subtractor_label is
\* None exactly when axis_subtractor = 0; otherwise it is
\* axis_subtractor / 10^axis_power to two decimals followed by the metric
\* prefix of axis_power, where axis_power is the prefix power of the last
\* tick.  Ticks [1000004, 1000005] are labelled "1.00M".
C12_SubtractorLabelIffNonzero ==
    /\ (Constructed("Ticks") \/ Constructed("XAxis") \/ Constructed("YAxis")) =>
        /\ (ret.val.axis_subtractor_label = None) <=> (ret.val.axis_subtractor.n = 0)
        /\ ret.val.axis_power = PowerOfLast(ret.val.tick_values)
        /\ (ret.val.axis_subtractor.n # 0) =>
              /\ ret.val.axis_subtractor_label.some
              /\ ret.val.axis_subtractor_label.v
                   = Format2f(RDiv(ret.val.axis_subtractor, Pow10(ret.val.axis_power)))
                     \o _get_metric_prefix(ret.val.axis_power)
    /\ (Constructed("Ticks")
            /\ arg.tick_values = Some(<<RInt(1000004), RInt(1000005)>>)) =>
        /\ ret.val.axis_subtractor = RInt(1000000)
        /\ ret.val.axis_subtractor_label = Some(<<"1", ".", "0", "0", "M">>)

C12_Witness ==
    /\ Constructed("Ticks")
    /\ ret.val.axis_subtractor.n # 0
    /\ ret.val.axis_subtractor_label = Some(<<"1", ".", "0", "0", "M">>)

\* C13: constructing an XAxis fails when tick_padding, min_tick_margin or
\* width is negative, and when width < 2*tick_padding + 1; with any other
\* geometry, min_data <= max_data and ticks left to be computed it succeeds;
\* no XAxis exists whose width cannot hold one tick block.
C13_XAxisGeometryChecked ==
    /\ (Returned("XAxis")
            /\ (arg.tick_padding < 0 \/ arg.min_tick_margin < 0 \/ arg.width < 0)) =>
        ret.err = "tick_padding, min_tick_margin, and width must be 0 or greater"
    /\ (Returned("XAxis")
            /\ arg.tick_padding >= 0 /\ arg.min_tick_margin >= 0 /\ arg.width >= 0
            /\ arg.width < 2 * arg.tick_padding + 1) =>
        ret.err = "tick_padding is too large and will not fit in allocated width."
    /\ (Returned("XAxis")
            /\ arg.tick_padding >= 0 /\ arg.min_tick_margin >= 0
            /\ arg.width >= 2 * arg.tick_padding + 1
            /\ RLe(arg.min_data, arg.max_data)
            /\ arg.tick_values = None /\ arg.tick_labels = None) =>
        ret.err = "none"
    /\ Constructed("XAxis") =>
        /\ ret.val.tick_padding >= 0
        /\ ret.val.width >= 2 * ret.val.tick_padding + 1

C13_Witness ==
    /\ Returned("XAxis")
    /\ arg.tick_padding > 0 /\ arg.min_tick_margin > 0
    /\ arg.width = 2 * arg.tick_padding
    /\ RLt(arg.min_data, arg.max_data)
    /\ ret.err = "tick_padding is too large and will not fit in allocated width."

\* C14: constructing a YAxis fails when position is neither "left" nor
\* "right" and when min_tick_margin, width or length is negative, and these
\* are the only geometric reasons for failure: with a valid position,
\* non-negative measurements, min_data <= max_data and ticks left to be
\* computed it succeeds.
C14_YAxisOnlyGeometricFailures ==
    /\ (Returned("YAxis") /\ arg.position \notin {"left", "right"}) =>
        ret.err = "position must be 'left' or 'right'"
    /\ (Returned("YAxis")
            /\ (arg.min_tick_margin < 0 \/ arg.width < 0 \/ arg.length < 0)) =>
        ret.err # "none"
    /\ (Returned("YAxis") /\ arg.position \in {"left", "right"}
            /\ arg.min_tick_margin >= 0 /\ arg.width >= 0 /\ arg.length >= 0
            /\ RLe(arg.min_data, arg.max_data)
            /\ arg.tick_values = None /\ arg.tick_labels = None) =>
        ret.err = "none"

\* C15: for length >= 0 and min_tick_margin >= 0 a YAxis has the tick budget
\* max(1, 1 + floor((length - 1) / (1 + min_tick_margin))); with length = 0
\* and otherwise valid inputs it is constructed, with a budget of one tick.
C15_YAxisBudgetClampedToOne ==
    (Returned("YAxis") /\ arg.position \in {"left", "right"}
        /\ arg.min_tick_margin >= 0 /\ arg.width >= 0 /\ arg.length >= 0
        /\ RLe(arg.min_data, arg.max_data)
        /\ arg.tick_values = None /\ arg.tick_labels = None) =>
        /\ ret.err = "none"
        /\ ret.val.max_ticks
             = Max(1, 1 + ((arg.length - 1) \div (1 + arg.min_tick_margin)))

\* the 0-based rows top_padding + k * (tick_margin + 1), k < number_of_yticks
TickRows(self) ==
    {self.top_padding + k * (self.tick_margin + 1) : k \in 0..(self.number_of_yticks - 1)}

LineGlyph(self) == Text(<<Get(self.characters, "yline", HeavyVertical)>>, "yaxis")

\* C16: yline() returns exactly length glyphs.  With show_ticks true and
\* ticks that fit the length (as computed ticks always do), exactly
\* number_of_yticks of them are the tick glyph, at the rows
\* top_padding + k*(tick_margin + 1), and every other row, the top and
\* bottom padding included, is the plain line glyph; with show_ticks false
\* every row shows the line glyph.
C16_YLineGlyphs ==
    /\ Returned("yline") =>
        /\ ret.err = "none"
        /\ Len(ret.val) = arg.self.length
    /\ (Returned("yline") /\ arg.self.show_ticks
            /\ arg.self.number_of_yticks <= arg.self.length) =>
        /\ \A row \in TickRows(arg.self) :
              /\ row + 1 \in DOMAIN ret.val
              /\ ret.val[row + 1].style = "ytick"
              /\ ret.val[row + 1].text # LineGlyph(arg.self).text
        /\ \A i \in DOMAIN ret.val :
              (i - 1) \notin TickRows(arg.self) => ret.val[i] = LineGlyph(arg.self)
        /\ Cardinality({i \in DOMAIN ret.val : ret.val[i] # LineGlyph(arg.self)})
             = arg.self.number_of_yticks
        /\ \A i \in 1..arg.self.top_padding : ret.val[i] = LineGlyph(arg.self)
        /\ \A i \in (arg.self.length - arg.self.bottom_padding + 1)..arg.self.length :
              ret.val[i] = LineGlyph(arg.self)
    /\ (Returned("yline") /\ ~arg.self.show_ticks) =>
        \A i \in DOMAIN ret.val : ret.val[i].text = LineGlyph(arg.self).text
    /\ (Constructed("YAxis") /\ ~Truthy(arg.tick_values)) =>
        ret.val.number_of_yticks <= ret.val.length

C16_Witness ==
    /\ Returned("yline") /\ arg.self.show_ticks
    /\ arg.self.number_of_yticks >= 3
    /\ arg.self.tick_margin >= 1
    /\ arg.self.bottom_padding >= 1
    /\ Len(ret.val) = arg.self.length

IsPrefix(p, str) == Len(p) <= Len(str) /\ p = SubSeq(str, 1, Len(p))

Filler(self) == Text(<<Get(self.characters, "ytick_spacing", " ")>>, "ytick_spacing")

\* the 0-based row of the k-th tick from the top, and the label it is due
RowOfTick(self, k) == self.top_padding + k * (self.tick_margin + 1)

LabelOfTick(self, k) == self.tick_labels[self.number_of_yticks - k]

\* the tick rows carry the labels, largest tick first: each starts its label
\* and shows at least the width - 1 characters the column takes
LabelsDescend(self, rows) ==
    \A k \in 0..(self.number_of_yticks - 1) :
        /\ RowOfTick(self, k) + 1 \in DOMAIN rows
        /\ rows[RowOfTick(self, k) + 1].style = "ytick_label"
        /\ IsPrefix(rows[RowOfTick(self, k) + 1].text, LabelOfTick(self, k))
        /\ Len(rows[RowOfTick(self, k) + 1].text)
             >= Min(Len(LabelOfTick(self, k)), self.width - 1)

\* a row that is no tick row is the filler, unless it lies below a tick row
\* whose label overflows the column and before the next tick row
FillerElsewhere(self, rows) ==
    \A i \in DOMAIN rows :
        ((i - 1) \notin TickRows(self) /\ rows[i] # Filler(self)) =>
            /\ rows[i].style = "ytick_label"
            /\ self.top_padding < i /\ i <= self.length - self.bottom_padding
            /\ \E k \in 0..(self.number_of_yticks - 1) :
                  /\ RowOfTick(self, k) < i - 1
                  /\ i - 1 < RowOfTick(self, k) + self.tick_margin + 1
                  /\ Len(LabelOfTick(self, k)) > self.width - 1

FiveToZero(rows) ==
    rows = <<Text(<<"5", ".", "0", "0">>, "ytick_label"),
             Text(<<" ">>, "ytick_spacing"), Text(<<" ">>, "ytick_spacing"),
             Text(<<" ">>, "ytick_spacing"),
             Text(<<"0", ".", "0", "0">>, "ytick_label")>>

IsFiveRowExample(self) ==
    /\ self.min_data = RInt(0) /\ self.max_data = RInt(5) /\ self.max_ticks = 2
    /\ self.length = 5 /\ self.width = 10 /\ self.characters = EmptyDict
    /\ self.number_of_yticks = 2 /\ Len(self.tick_labels[1]) = 4

RECURSIVE JoinLabelRows(_, _, _)
JoinLabelRows(rows, from, to) ==
    IF to < from THEN <<>>
    ELSE (IF rows[from].style = "ytick_label" THEN rows[from].text ELSE <<>>)
         \o JoinLabelRows(rows, from + 1, to)

\* the last 1-based row that can carry text of the k-th tick from the top
LastRowOfTick(self, k) ==
    IF k = self.number_of_yticks - 1 THEN self.length ELSE RowOfTick(self, k + 1)

\* C18: wrapping loses no text: for every tick label of a YAxis the fragments
\* emitted for it, its tick row and the carry-over rows before the next tick
\* row, join to the full label; in particular the label of the bottom tick
\* row is emitted whole.  Labels ["zzyyxx", "aabbccddee"] with width=3,
\* length=5 render as aa, bb, cc, ddee, zzyyxx.
C18_WrappingLosesNoText ==
    /\ Returned("ytick_labels") =>
        /\ ret.err = "none"
        /\ \A k \in 0..(arg.self.number_of_yticks - 1) :
              /\ RowOfTick(arg.self, k) + 1 \in DOMAIN ret.val
              /\ JoinLabelRows(ret.val, RowOfTick(arg.self, k) + 1,
                               LastRowOfTick(arg.self, k))
                   = LabelOfTick(arg.self, k)
    /\ (Returned("ytick_labels") /\ Some(arg.self.tick_labels) = LongLabels
            /\ arg.self.width = 3 /\ arg.self.length = 5) =>
        ret.val = <<Text(<<"a", "a">>, "ytick_label"), Text(<<"b", "b">>, "ytick_label"),
                    Text(<<"c", "c">>, "ytick_label"),
                    Text(<<"d", "d", "e", "e">>, "ytick_label"),
                    Text(<<"z", "z", "y", "y", "x", "x">>, "ytick_label")>>

AllOf(text, glyph) == \A i \in DOMAIN text : text[i] = glyph

\* the glyph the claim has yline() draw for a tick
ClaimedYTick(self) ==
    IF self.position = "left"
    THEN Get(self.characters, "left_ytick", HeavyVerticalAndLeft)
    ELSE Get(self.characters, "right_ytick", HeavyVerticalAndRight)

\* C19: each key of the characters mapping, xline, xtick, xtick_spacing,
\* yline, left_ytick, right_ytick, ytick_spacing, replaces the default glyph
\* when present and leaves the default when absent; left_ytick sets the tick
\* glyph of yline() on a left axis and right_ytick on a right axis.
C19_EveryKeyOverrides ==
    /\ Returned("xline") =>
        \A c \in DOMAIN ret.val :
            IF arg.self.table_columns[c].header = "xtick"
            THEN /\ AllOf(ret.val[c].parts[1].text,
                          Get(arg.self.characters, "xline", HeavyHorizontal))
                 /\ AllOf(ret.val[c].parts[3].text,
                          Get(arg.self.characters, "xline", HeavyHorizontal))
                 /\ arg.self.show_ticks =>
                      ret.val[c].parts[2].text
                        = <<Get(arg.self.characters, "xtick", HeavyDownAndHorizontal)>>
            ELSE AllOf(ret.val[c].text, Get(arg.self.characters, "xline", HeavyHorizontal))
    /\ Returned("xtick_labels") =>
        \A c \in DOMAIN ret.val :
            (arg.self.table_columns[c].header # "xtick") =>
                AllOf(ret.val[c].text, Get(arg.self.characters, "xtick_spacing", " "))
    /\ Returned("ytick_labels") =>
        \A i \in DOMAIN ret.val :
            (ret.val[i].style = "ytick_spacing") =>
                ret.val[i].text = <<Get(arg.self.characters, "ytick_spacing", " ")>>
    /\ Returned("yline") =>
        \A i \in DOMAIN ret.val :
            IF arg.self.show_ticks /\ ret.val[i].style = "ytick"
            THEN ret.val[i].text = <<ClaimedYTick(arg.self)>>
            ELSE ret.val[i].text = <<Get(arg.self.characters, "yline", HeavyVertical)>>

\* C20: tick_positions holds the index of each tick and nothing else: in a
\* constructed XAxis it has number_of_xticks entries, the k-th being
\* left_padding + tick_padding + k*(tick_margin + 2*tick_padding + 1), all
\* in [0, width); in a constructed YAxis it has number_of_yticks entries, the
\* k-th being top_padding + k*(tick_margin + 1), all in [0, length).
C20_TickPositionsAreTheTicks ==
    /\ Constructed("XAxis") =>
        /\ Len(ret.val.tick_positions) = ret.val.number_of_xticks
        /\ \A i \in DOMAIN ret.val.tick_positions :
              /\ ret.val.tick_positions[i]
                   = ret.val.left_padding + ret.val.tick_padding
                     + (i - 1) * (ret.val.tick_margin + 2 * ret.val.tick_padding + 1)
              /\ 0 <= ret.val.tick_positions[i]
              /\ ret.val.tick_positions[i] < ret.val.width
    /\ Constructed("YAxis") =>
        /\ Len(ret.val.tick_positions) = ret.val.number_of_yticks
        /\ \A i \in DOMAIN ret.val.tick_positions :
              /\ ret.val.tick_positions[i]
                   = ret.val.top_padding + (i - 1) * (ret.val.tick_margin + 1)
              /\ 0 <= ret.val.tick_positions[i]
              /\ ret.val.tick_positions[i] < ret.val.length

\* C21: width accounting also holds for caller-supplied ticks: an XAxis
\* built without error from a non-empty ascending tick_values list of any
\* length has column widths that sum to exactly width, and its tick_margin,
\* left_padding and right_padding are all >= 0.
C21_SuppliedTicksSumToWidth ==
    (Constructed("XAxis") /\ Truthy(arg.tick_values)
                          /\ NonDescending(arg.tick_values.v)) =>
        /\ SumWidths(ret.val.table_columns) = arg.width
        /\ ret.val.tick_margin >= 0
        /\ ret.val.left_padding >= 0
        /\ ret.val.right_padding >= 0

\* the attributes the render operations must leave alone
Frame(self) ==
    <<self.tick_values, self.tick_labels, self.tick_margin, self.tick_positions,
      self.table_columns,
      IF "left_padding" \in DOMAIN self
      THEN <<self.left_padding, self.right_padding>>
      ELSE <<self.top_padding, self.bottom_padding>>>>

\* C22: the render operations are pure queries: after any sequence of calls
\* to xline(), xtick_labels(), yline(), ytick_labels() on an axis its
\* tick_values, tick_labels, paddings, tick_margin, tick_positions and column
\* table are as the constructor left them, and an operation called again
\* returns the rows it returned the first time.
C22_RenderingIsPure ==
    (pc = "returned" /\ op \in XMethods \cup YMethods) =>
        /\ Frame(arg.self) = Frame(arg.built)
        /\ ret = arg.first[op]

C22_Witness ==
    /\ pc = "returned" /\ op = "ytick_labels" /\ arg.again
    /\ "yline" \in DOMAIN arg.first
    /\ ret.err = "none"
    /\ arg.self.number_of_yticks >= 2
    /\ \E r \in DOMAIN ret.val : ret.val[r].style = "ytick_label"

RECURSIVE CharacterCount(_)
CharacterCount(row) ==
    IF Len(row) = 0 THEN 0 ELSE Len(row[1].text) + CharacterCount(Tail(row))

\* the width of slot c in the order left padding, tick block, margin, tick
\* block, ..., tick block, right padding
SlotWidth(self, c) ==
    IF c = 1 THEN self.left_padding
    ELSE IF c = 2 * self.number_of_xticks + 1 THEN self.right_padding
    ELSE IF c % 2 = 0 THEN 2 * self.tick_padding + 1
    ELSE self.tick_margin

XLineGlyph(self) == Get(self.characters, "xline", HeavyHorizontal)

\* tick_padding line characters, the tick glyph (the line character when
\* show_ticks is false), tick_padding line characters
TickBlock(self) ==
    Repeat(XLineGlyph(self), self.tick_padding)
    \o <<IF self.show_ticks
         THEN Get(self.characters, "xtick", HeavyDownAndHorizontal)
         ELSE XLineGlyph(self)>>
    \o Repeat(XLineGlyph(self), self.tick_padding)

\* C23: xline() and xtick_labels() each emit exactly 2*number_of_xticks + 1
\* fragments in the slot order left padding, tick block, margin, ..., tick
\* block, right padding; in xline() a tick block is tick_padding line
\* characters, one tick glyph (the line character when show_ticks is false)
\* and tick_padding line characters, every other slot is line characters of
\* the slot's width, and the row has width characters in all; in
\* xtick_labels() the k-th tick block carries the k-th label in ascending
\* tick order and every other slot is filler of the slot's width.
C23_XRowsFollowSlots ==
    /\ Returned("xline") =>
        /\ ret.err = "none"
        /\ Len(ret.val) = 2 * arg.self.number_of_xticks + 1
        /\ \A c \in DOMAIN ret.val :
              IF c % 2 = 0
              THEN ret.val[c].text = TickBlock(arg.self)
              ELSE ret.val[c].text = Repeat(XLineGlyph(arg.self), SlotWidth(arg.self, c))
        /\ CharacterCount(ret.val) = arg.self.width
    /\ Returned("xtick_labels") =>
        /\ ret.err = "none"
        /\ Len(ret.val) = 2 * arg.self.number_of_xticks + 1
        /\ \A c \in DOMAIN ret.val :
              IF c % 2 = 0
              THEN ret.val[c].text = arg.self.tick_labels[c \div 2]
              ELSE ret.val[c].text
                     = Repeat(Get(arg.self.characters, "xtick_spacing", " "),
                              SlotWidth(arg.self, c))

\* p = floor(log10(number)) for number > 0
IsPowerOf(number, p) == RLe(Pow10(p), number) /\ RLt(number, Pow10(p + 1))

\* the limits that qualify for the leading term
Qualifying(limits, lead, allow_equal) ==
    {i \in DOMAIN limits : IF allow_equal THEN RLe(lead, limits[i]) ELSE RLt(lead, limits[i])}

\* the rounding term at the index of the smallest qualifying limit, or 10
ClaimedLead(limits, rounding_terms, q) ==
    IF q = {} THEN RInt(10)
    ELSE rounding_terms[CHOOSE i \in q : \A j \in q : RLe(limits[i], limits[j])]

ClaimedRound(a, p) ==
    RMul(ClaimedLead(a.limits, a.rounding_terms,
                     Qualifying(a.limits, RDiv(a.number, Pow10(p)), a.allow_equal)),
         Pow10(p))

RoundCall(number, limits, allow_equal) ==
    /\ Returned("_round_number")
    /\ arg.number = number /\ arg.limits = limits /\ arg.allow_equal = allow_equal

\* C24: for number > 0 with lead = number / 10^floor(log10(number)),
\* _round_number returns rounding_terms[i] * 10^power where i is the index
\* of the smallest limit strictly greater than lead when allow_equal is
\* false, or greater than or equal to lead when it is true, and 10 * 10^power
\* when no limit qualifies; so round(3, (1.5, 3, 7), (1, 2, 5), false) = 5,
\* round(2, (1, 2, 5), (1, 2, 5), true) = 2 and
\* round(1.003, (1, 2, 5), (1, 2, 5), true) = 2.
C24_RoundNumber ==
    /\ Returned("_round_number") =>
          \E p \in -4..4 : IsPowerOf(arg.number, p) /\ ret = Ok(ClaimedRound(arg, p))
    /\ RoundCall(RInt(3), RangeLimits, FALSE) => ret.val = RInt(5)
    /\ RoundCall(RInt(2), SpacingLimits, TRUE) => ret.val = RInt(2)
    /\ RoundCall(Rat(1003, 1000), SpacingLimits, TRUE) => ret.val = RInt(2)

C24_Witness ==
    /\ RoundCall(RInt(70), RangeLimits, FALSE)
    /\ ret.val = RInt(100)

\* the call takes the else branch of _get_tick_values and keeps the nice ticks
NonFallback(a) ==
    /\ RLt(a.min_data, a.max_data)
    /\ a.max_ticks >= 2
    /\ ~InFallback(a)

\* m * 10^k with m in {1, 2, 5} and integer k
IsNice(x) == \E k \in -4..4, m \in {1, 2, 5} : x = RMul(RInt(m), Pow10(k))

IsMultipleOf(x, unit) == RDiv(x, unit).d = 1

\* the step between the returned ticks
StepOf(ticks) == RSub(ticks[2], ticks[1])

\* C25: in the non-fallback branch of tick generation the step between the
\* ticks is of the form m * 10^k with m in {1, 2, 5}, it is at least
\* rounded_range / (max_ticks - 1), and every returned tick is an integer
\* multiple of it, the first being floor(min_data / tick_spacing) *
\* tick_spacing.
C25_NiceStepNeverShrinks ==
    (Returned("_get_tick_values") /\ NonFallback(arg)) =>
        /\ ret.err = "none"
        /\ Len(ret.val) >= 2
        /\ \A i \in 1..(Len(ret.val) - 1) : StepAt(ret.val, i) = StepOf(ret.val)
        /\ IsNice(StepOf(ret.val))
        /\ RLe(RDiv(RoundedRange(RSub(arg.max_data, arg.min_data)),
                    RInt(arg.max_ticks - 1)),
               StepOf(ret.val))
        /\ \A i \in DOMAIN ret.val : IsMultipleOf(ret.val[i], StepOf(ret.val))
        /\ ret.val[1]
             = RMul(RInt(RFloor(RDiv(arg.min_data, StepOf(ret.val)))), StepOf(ret.val))

C25_Witness ==
    /\ Returned("_get_tick_values") /\ NonFallback(arg)
    /\ Len(ret.val) >= 3
    /\ RLt(ret.val[1], arg.min_data)
    /\ RLt(RDiv(RoundedRange(RSub(arg.max_data, arg.min_data)), RInt(arg.max_ticks - 1)),
           StepOf(ret.val))

\* L = floor(log10(|x|)) for x # 0
IsFloorLog(x, L) ==
    \E q \in -4..4 : IsPowerOf(RAbs(x), q) /\ L = q + DecimalExponent(x)

\* t = 3 * floor(L / 3)
IsTripleBelow(L, t) == t % 3 = 0 /\ t <= L /\ L < t + 3

Clamp(x, lo, hi) == IF x < lo THEN lo ELSE IF hi < x THEN hi ELSE x

\* the leading term of x # 0, in [1, 10)
LeadOf(x) == RDiv(RAbs(x), Pow10(FloorLog10(RAbs(x))))

\* |y| <= |x|
MagnitudeLe(y, x) ==
    IF y.n = 0 THEN TRUE
    ELSE IF x.n = 0 THEN FALSE
    ELSE \/ FloorLog10Abs(y) < FloorLog10Abs(x)
         \/ FloorLog10Abs(y) = FloorLog10Abs(x) /\ RLe(LeadOf(y), LeadOf(x))

Negated(x) == [x EXCEPT !.n = -x.n]

\* 0 for x = 0, otherwise 3*floor(floor(log10(|x|))/3) clamped to [-24, 24];
\* a multiple of 3 in [-24, 24]; the same for x and -x
PrefixPowerValue ==
    /\ ret.err = "none"
    /\ arg.number.n = 0 => ret.val = 0
    /\ arg.number.n # 0 =>
          \E L \in -40..40, t \in -42..42 :
              /\ IsFloorLog(arg.number, L)
              /\ IsTripleBelow(L, t)
              /\ ret.val = Clamp(t, -24, 24)
    /\ ret.val % 3 = 0 /\ -24 <= ret.val /\ ret.val <= 24
    /\ ret.val = _find_closest_prefix_power(Negated(arg.number))
    /\ arg.number = Scaled(RInt(1), 3) => ret.val = 3
    /\ arg.number = Scaled(RInt(2), 8) => ret.val = 6
    /\ arg.number = Scaled(RInt(1), -1) => ret.val = -3
    /\ arg.number = Scaled(RInt(1), -3) => ret.val = -3

\* C26 as stated: closest_prefix_power(x) is 0 for x == 0 and otherwise
\* 3*floor(floor(log10(|x|))/3) clamped to [-24, 24]; it is a multiple of 3
\* in [-24, 24], depends only on |x|, and is non-decreasing in |x| over all x
\* (1e3 -> 3, 200e6 -> 6, 0.1 -> -3, 1e-3 -> -3).
C26_PrefixPowerMonotone ==
    Returned("_find_closest_prefix_power") =>
        /\ PrefixPowerValue
        /\ \A y \in PrefixPool :
              MagnitudeLe(y, arg.number) => _find_closest_prefix_power(y) <= ret.val

\* C26, amended: the same, with the result non-decreasing in |x| over the
\* x other than 0.
C26_PrefixPowerMonotoneOffZero ==
    Returned("_find_closest_prefix_power") =>
        /\ PrefixPowerValue
        /\ \A y \in PrefixPool :
              (y.n # 0 /\ arg.number.n # 0 /\ MagnitudeLe(y, arg.number))
                  => _find_closest_prefix_power(y) <= ret.val

C26_Witness ==
    /\ Returned("_find_closest_prefix_power")
    /\ arg.number = Scaled(Rat(-5, 100), -24)
    /\ ret.val = -24

\* the margin is at least the minimum asked for and the leftover is split
\* with the extra character, if any, on the trailing side
MarginHonoured(min_tick_margin, tick_margin, leading, trailing, number_of_ticks) ==
    /\ tick_margin >= min_tick_margin
    /\ 0 <= trailing - leading
    /\ trailing - leading <= 1
    /\ leading + trailing < number_of_ticks - 1

\* C27: for every XAxis and YAxis constructed without error with computed
\* ticks and 2 or more ticks, tick_margin >= min_tick_margin,
\* 0 <= right_padding - left_padding <= 1 (bottom_padding - top_padding for a
\* YAxis) and the two paddings sum to less than number_of_ticks - 1.
C27_MinTickMarginHonoured ==
    /\ (Constructed("XAxis") /\ ~Truthy(arg.tick_values)
                             /\ ret.val.number_of_xticks >= 2) =>
          MarginHonoured(arg.min_tick_margin, ret.val.tick_margin,
                         ret.val.left_padding, ret.val.right_padding,
                         ret.val.number_of_xticks)
    /\ (Constructed("YAxis") /\ ~Truthy(arg.tick_values)
                             /\ ret.val.number_of_yticks >= 2) =>
          MarginHonoured(arg.min_tick_margin, ret.val.tick_margin,
                         ret.val.top_padding, ret.val.bottom_padding,
                         ret.val.number_of_yticks)

C27_Witness ==
    /\ Constructed("XAxis") /\ ~Truthy(arg.tick_values)
    /\ ret.val.number_of_xticks >= 3
    /\ arg.min_tick_margin >= 1
    /\ ret.val.tick_margin > arg.min_tick_margin
    /\ ret.val.right_padding = ret.val.left_padding + 1

\* the walk of self.ytick_labels(), state by state
WalkOf(self) ==
    YLabelsTrace(self, Get(self.characters, "ytick_spacing", " "),
                 WalkState(self.top_padding, None, self.tick_labels,
                           Repeat(Filler(self), self.top_padding), "none"))

BetweenTickRows(self, row) ==
    /\ \E a \in TickRows(self) : a < row
    /\ \E b \in TickRows(self) : row < b

\* what holds of the carry-over when the walk is at row st.row
CarryOverSafe(self, st) ==
    /\ st.err = "none"
    /\ st.row \in TickRows(self) => ~Truthy(st.leftover)
    /\ Truthy(st.leftover) => BetweenTickRows(self, st.row)

\* a pass takes no label, or takes the last one of a non-empty list on a
\* tick row
TakesAtMostOne(self, st, next) ==
    \/ next.tick_labels = st.tick_labels
    \/ /\ Len(st.tick_labels) > 0
       /\ next.tick_labels = SubSeq(st.tick_labels, 1, Len(st.tick_labels) - 1)
       /\ st.row \in TickRows(self)
       /\ next.err = "none"

\* C28: at every step of the walk of ytick_labels(), the leftover is empty
\* whenever the current row is a tick row, each label is taken from the list
\* at most once, the list is never popped when empty, and a non-empty
\* leftover exists only on rows strictly between two tick rows.
C28_CarryOverSafe ==
    Returned("ytick_labels") =>
        /\ \A i \in DOMAIN WalkOf(arg.self) : CarryOverSafe(arg.self, WalkOf(arg.self)[i])
        /\ \A i \in 1..(Len(WalkOf(arg.self)) - 1) :
              TakesAtMostOne(arg.self, WalkOf(arg.self)[i], WalkOf(arg.self)[i + 1])

====
